---- MODULE Spec2Model ----
(***************************************************************************)
(* Student records service (routes.py, models.py): the five request        *)
(* handlers over one "students" collection of a document store.            *)
(*                                                                         *)
(* A handler is a coroutine: it runs without interruption between two      *)
(* storage calls, and each storage call (insert_one, find, find_one,       *)
(* update_one, delete_one) takes effect atomically in the store.  Create,  *)
(* List, Fetch and Delete make one storage call and are one action each;   *)
(* Update makes two (find_one, then update_one) and is two actions, with   *)
(* the handler's locals kept in its frame in between.                      *)
(***************************************************************************)
EXTENDS Integers, Sequences, FiniteSets, TLC

VARIABLES
    students,   \* the collection: ObjectId -> stored document
    nextId,     \* number of ObjectIds the store has generated so far
    req         \* per handler: its frame (locals) and its response

vars == <<students, nextId, req>>

\* Bounds: the number of ObjectIds the store generates in a behaviour of
\* Spec, of SpecList and of SpecRace.
MaxIds == 1
MaxListIds == 3
MaxRaceIds == 2

\* to_list(length=1000), routes.py line 91.
ListCap == 1000

(***************************************************************************)
(* JSON / Python values, tagged with their Python type                     *)
(***************************************************************************)
Str(s)  == [t |-> "str",  v |-> s]
Num(n)  == [t |-> "int",  v |-> n]
Dict(f) == [t |-> "dict", v |-> f]
None    == [t |-> "null", v |-> 0]

\* Python truthiness, as used by `not name`, `not city`, `if country`.
Truthy(x) ==
    CASE x.t = "str"  -> x.v # ""
      [] x.t = "int"  -> x.v # 0
      [] x.t = "dict" -> DOMAIN x.v # {}
      [] OTHER        -> FALSE

\* dict.get(key): the value, or None when the key is absent.
Get(d, k) == IF k \in DOMAIN d THEN d[k] ELSE None

\* The empty mapping {}.
EmptyMap == [k \in {} |-> None]

\* All mappings whose keys are a subset of K and whose value at k is in V[k].
Maps(K, V) ==
    UNION { { f \in [S -> UNION { V[k] : k \in S }] : \A k \in S : f[k] \in V[k] }
            : S \in SUBSET K }

(***************************************************************************)
(* Identifiers.  An ObjectId is modelled by its ordinal 1, 2, ...; the id  *)
(* string of a request is either the rendering of an ObjectId or a string  *)
(* ObjectId() does not accept.                                             *)
(***************************************************************************)
IdStr(n)    == [wf |-> TRUE, n |-> n]        \* str(ObjectId n)
MalformedId == [wf |-> FALSE, n |-> 0]       \* e.g. "abc"
NoId        == [wf |-> FALSE, n |-> -1]      \* handler has no id parameter

\* The id strings requests are sent with: every id the store may generate
\* (stored, deleted or not yet generated) and a malformed one.
IdStrings(maxIds) == { IdStr(n) : n \in 1..maxIds } \cup {MalformedId}

\* ObjectId(id) raises InvalidId unless the string is a well-formed id.
ObjectIdRaises(id) == ~id.wf
ObjectId(id) == id.n

(***************************************************************************)
(* models.py                                                               *)
(***************************************************************************)
\* Address.__init__: raises ValueError unless city and country are truthy.
AddressRaises(city, country) == ~Truthy(city) \/ ~Truthy(country)

\* The Address object: <<city, country>>.
Address(city, country) == <<city, country>>

\* Address.to_dict with the two fields exchanged.
Address_to_dict_swapped(a) == [city |-> a[2], country |-> a[1]]

\* Address.to_dict
Address_to_dict(a) == [city |-> a[1], country |-> a[2]]

\* isinstance(x, str), isinstance(x, int), isinstance(x, dict)
IsStr(x)  == x.t = "str"
IsInt(x)  == x.t = "int"
IsDict(x) == x.t = "dict"

\* Student.__init__: TRUE iff it raises ValueError.
StudentRaises(name, age, address) ==
    \/ ~Truthy(name) \/ ~IsStr(name)
    \/ ~IsInt(age) \/ age.v < 0
    \/ ~IsDict(address)
    \/ AddressRaises(Get(address.v, "city"), Get(address.v, "country"))

\* The Student object: <<name, age, Address>>.
Student(name, age, address) ==
    <<name, age, Address(Get(address.v, "city"), Get(address.v, "country"))>>

\* Student.to_dict
Student_to_dict(s) ==
    [name |-> s[1], age |-> s[2], address |-> Address_to_dict(s[3])]

(***************************************************************************)
(* The document store (the calls routes.py makes on db.students)           *)
(***************************************************************************)
StoredIds == DOMAIN students

\* insert_one: the store generates a fresh ObjectId.
inserted_id == nextId + 1

insert_one(doc) ==
    /\ students' = [i \in StoredIds \cup {inserted_id} |->
                        IF i = inserted_id THEN doc ELSE students[i]]
    /\ nextId' = inserted_id

\* A document as the driver returns it: its fields and its "_id".
WithId(oid, doc) ==
    [k \in DOMAIN doc \cup {"_id"} |-> IF k = "_id" THEN oid ELSE doc[k]]

\* find_one({"_id": oid}): the document, or None.
find_one(oid) ==
    IF oid \in StoredIds THEN WithId(oid, students[oid]) ELSE None

\* {"$set": update_data} applied to a document.
ApplySet(doc, update_data) ==
    [k \in DOMAIN doc \cup DOMAIN update_data |->
        IF k \in DOMAIN update_data THEN update_data[k] ELSE doc[k]]

\* The matched count in place of the modified count: 1 iff a document matched.
matched_count(oid, update_data) == IF oid \in StoredIds THEN 1 ELSE 0

\* update_one({"_id": oid}, {"$set": update_data}).modified_count: 1 iff a
\* document matched and the $set changed it.  (An empty $set is accepted and
\* changes nothing, as the store does since version 5.0.)
modified_count(oid, update_data) ==
    IF oid \in StoredIds /\ ApplySet(students[oid], update_data) # students[oid]
    THEN 1 ELSE 0

\* update_one with upsert=True: a document is inserted when none matches.
update_one_upsert(oid, update_data) ==
    [i \in StoredIds \cup {oid} |->
        IF i # oid THEN students[i]
        ELSE IF oid \in StoredIds THEN ApplySet(students[i], update_data)
        ELSE update_data]

\* The collection after update_one (no upsert).
update_one(oid, update_data) ==
    [i \in StoredIds |->
        IF i = oid THEN ApplySet(students[i], update_data) ELSE students[i]]

\* A deleted_count that reports a deletion whether or not one happened.
deleted_count_always(oid) == 1

\* delete_one({"_id": oid}).deleted_count
deleted_count(oid) == IF oid \in StoredIds THEN 1 ELSE 0

\* The collection after delete_one.
delete_one(oid) == [i \in StoredIds \ {oid} |-> students[i]]


\* SeqOfIds(S): the ids of S in ascending (insertion) order.
RECURSIVE SeqOfIds(_)
SeqOfIds(S) ==
    IF S = {} THEN <<>>
    ELSE LET m == CHOOSE x \in S : \A y \in S : x <= y
         IN  <<m>> \o SeqOfIds(S \ {m})

\* Matches with an exclusive lower bound on age ($gt for $gte).
MatchesExclusive(doc, query) ==
    /\ "address.country" \in DOMAIN query
          => doc["address"]["country"] = query["address.country"]
    /\ "age" \in DOMAIN query
          => /\ doc["age"].t = "int"
             /\ doc["age"].v > query["age"].v

\* Does a stored document match the query mapping of list_students?
Matches(doc, query) ==
    /\ "address.country" \in DOMAIN query
          => doc["address"]["country"] = query["address.country"]
    /\ "age" \in DOMAIN query
          => /\ doc["age"].t = "int"
             /\ doc["age"].v >= query["age"].v

\* find(query): the cursor, documents in insertion order.
find(query) ==
    LET ids == SeqOfIds({ i \in StoredIds : Matches(students[i], query) })
    IN  [n \in 1..Len(ids) |-> WithId(ids[n], students[ids[n]])]

\* cursor.to_list(length): at most `length` documents of the cursor.
to_list(cursor, length) ==
    IF Len(cursor) <= length THEN cursor ELSE SubSeq(cursor, 1, length)

(***************************************************************************)
(* Handler frames                                                          *)
(***************************************************************************)
\* pc: "idle" (waiting for a request), "loaded" (update_student suspended
\* between find_one and update_one), "done" (the handler has produced its
\* response; the frame is dropped when the response is delivered).
Frame(pc, op, id, input, student, status, detail, payload, reads, writes) ==
    [pc |-> pc, op |-> op, id |-> id, input |-> input, student |-> student,
     status |-> status, detail |-> detail, payload |-> payload,
     reads |-> reads, writes |-> writes]

IdleFrame == Frame("idle", "none", NoId, EmptyMap, None, 0, "", <<>>, 0, 0)

\* A handler can take a request when it is not inside one.
Free(r) == req[r].pc = "idle"

\* raise HTTPException(status_code, detail) / return of a response.
Respond(r, op, id, input, student, status, detail, payload, reads, writes) ==
    req' = [req EXCEPT ![r] =
               Frame("done", op, id, input, student, status, detail, payload,
                     reads, writes)]

(***************************************************************************)
(* routes.py: create_student                                               *)
(***************************************************************************)
create_student(r, student_data) ==
    /\ Free(r)
    /\ IF ~({"name", "age", "address"} \subseteq DOMAIN student_data)
       THEN \* student_data[...] raises KeyError
            /\ Respond(r, "create", NoId, student_data, None, 400, "KeyError",
                       <<>>, 0, 0)
            /\ UNCHANGED <<students, nextId>>
       ELSE IF StudentRaises(student_data["name"], student_data["age"],
                             student_data["address"])
       THEN /\ Respond(r, "create", NoId, student_data, None, 400,
                       "ValueError", <<>>, 0, 0)
            /\ UNCHANGED <<students, nextId>>
       ELSE /\ insert_one(Student_to_dict(
                   Student(student_data["name"], student_data["age"],
                           student_data["address"])))
            /\ Respond(r, "create", NoId, student_data, None, 201, "",
                       <<[id |-> IdStr(inserted_id)]>>, 0, 1)

(***************************************************************************)
(* routes.py: list_students                                                *)
(***************************************************************************)
\* The query mapping built from the two optional parameters (None: absent).
ListQuery(country, age) ==
    [k \in (IF Truthy(country) THEN {"address.country"} ELSE {})
           \cup (IF age # None THEN {"age"} ELSE {}) |->
        IF k = "age" THEN age ELSE country]

\* The {name, age} projection of the response.
Projection(student) == [name |-> student["name"], age |-> student["age"]]

list_students(r, country, age) ==
    /\ Free(r)
    /\ LET found == to_list(find(ListQuery(country, age)), ListCap)
       IN  Respond(r, "list", NoId, [country |-> country, age |-> age], None,
                   200, "", [n \in 1..Len(found) |-> Projection(found[n])],
                   1, 0)
    /\ UNCHANGED <<students, nextId>>

(***************************************************************************)
(* routes.py: fetch_student                                                *)
(***************************************************************************)
\* student["id"] = str(student["_id"]); del student["_id"]
FetchBody(student) ==
    [k \in (DOMAIN student \ {"_id"}) \cup {"id"} |->
        IF k = "id" THEN IdStr(student["_id"]) ELSE student[k]]

fetch_student(r, id) ==
    /\ Free(r)
    /\ UNCHANGED <<students, nextId>>
    /\ IF ObjectIdRaises(id)
       THEN \* InvalidId is not caught: the framework answers 500
            Respond(r, "fetch", id, EmptyMap, None, 500, "InvalidId", <<>>, 0, 0)
       ELSE LET student == find_one(ObjectId(id))
            IN  IF student = None
                THEN Respond(r, "fetch", id, EmptyMap, None, 404,
                             "Student not found", <<>>, 1, 0)
                ELSE Respond(r, "fetch", id, EmptyMap, None, 200, "",
                             <<FetchBody(student)>>, 1, 0)

(***************************************************************************)
(* routes.py: update_student                                               *)
(***************************************************************************)
ALLOWED_TOP_LEVEL_FIELDS == {"name", "age", "address"}
ALLOWED_ADDRESS_FIELDS == {"city", "country"}

\* ValidateFields without the check of the address keys.
ValidateFieldsTopOnly(student_update) ==
    IF ~(DOMAIN student_update \subseteq {"name", "age", "address"})
    THEN "Invalid field"
    ELSE "ok"

\* Lines 197-211: "ok", or the error the field validation ends in.
ValidateFields(student_update) ==
    IF ~(DOMAIN student_update \subseteq ALLOWED_TOP_LEVEL_FIELDS)
    THEN "Invalid field"
    ELSE IF "address" \notin DOMAIN student_update THEN "ok"
    ELSE IF ~IsDict(student_update["address"])
         THEN "TypeError"   \* iterating None
    ELSE IF ~(DOMAIN student_update["address"].v \subseteq ALLOWED_ADDRESS_FIELDS)
         THEN "Invalid address field"
    ELSE "ok"

\* UpdateData with the address built from the request alone (a replacement,
\* not a merge into the stored address).
UpdateDataReplace(student_update, student) ==
    [k \in DOMAIN student_update \cap {"name", "age", "address"} |->
        IF k # "address" THEN student_update[k]
        ELSE [city |-> Get(student_update["address"].v, "city"),
              country |-> Get(student_update["address"].v, "country")]]

\* Lines 219-237: the $set document built from the request and the loaded
\* student.
UpdateData(student_update, student) ==
    [k \in DOMAIN student_update \cap ALLOWED_TOP_LEVEL_FIELDS |->
        IF k # "address" THEN student_update[k]
        ELSE LET given == student_update["address"].v
             IN  [f \in DOMAIN student["address"]
                        \cup (DOMAIN given \cap ALLOWED_ADDRESS_FIELDS) |->
                     IF f \in DOMAIN given THEN given[f]
                     ELSE student["address"][f]]]

\* First half: validation, ObjectId(id), find_one.
update_student_load(r, id, student_update) ==
    /\ Free(r)
    /\ UNCHANGED <<students, nextId>>
    /\ LET v == ValidateFields(student_update)
       IN  IF v \in {"Invalid field", "Invalid address field"}
           THEN Respond(r, "update", id, student_update, None, 400, v, <<>>, 0, 0)
           ELSE IF v = "TypeError"
           THEN Respond(r, "update", id, student_update, None, 500, v, <<>>, 0, 0)
           ELSE IF ObjectIdRaises(id)
           THEN Respond(r, "update", id, student_update, None, 500,
                        "InvalidId", <<>>, 0, 0)
           ELSE LET student == find_one(ObjectId(id))
                IN  IF student = None
                    THEN Respond(r, "update", id, student_update, None, 404,
                                 "Student not found", <<>>, 1, 0)
                    ELSE req' = [req EXCEPT ![r] =
                                   Frame("loaded", "update", id, student_update,
                                         student, 0, "", <<>>, 1, 0)]

\* The second half with the merge done on the document stored at the time of
\* the write instead of the one loaded by the first half.
update_student_write_reread(r) ==
    /\ req[r].pc = "loaded"
    /\ LET f == req[r]
           oid == ObjectId(f.id)
           update_data == UpdateData(f.input,
                              IF oid \in StoredIds THEN find_one(oid) ELSE f.student)
       IN  /\ students' = update_one(oid, update_data)
           /\ IF modified_count(oid, update_data) = 0
              THEN Respond(r, "update", f.id, f.input, f.student, 404,
                           "Student not found", <<>>, 1, 1)
              ELSE Respond(r, "update", f.id, f.input, f.student, 204, "",
                           <<>>, 1, 1)
    /\ UNCHANGED nextId

\* Second half: update_one and the response.
update_student_write(r) ==
    /\ req[r].pc = "loaded"
    /\ LET f == req[r]
           oid == ObjectId(f.id)
           update_data == UpdateData(f.input, f.student)
       IN  /\ students' = update_one(oid, update_data)
           /\ IF modified_count(oid, update_data) = 0
              THEN Respond(r, "update", f.id, f.input, f.student, 404,
                           "Student not found", <<>>, 1, 1)
              ELSE Respond(r, "update", f.id, f.input, f.student, 204, "",
                           <<>>, 1, 1)
    /\ UNCHANGED nextId

(***************************************************************************)
(* routes.py: delete_student                                               *)
(***************************************************************************)
delete_student(r, id) ==
    /\ Free(r)
    /\ UNCHANGED nextId
    /\ IF ObjectIdRaises(id)
       THEN /\ Respond(r, "delete", id, EmptyMap, None, 500, "InvalidId",
                       <<>>, 0, 0)
            /\ UNCHANGED students
       ELSE /\ students' = delete_one(ObjectId(id))
            /\ IF deleted_count(ObjectId(id)) = 0
               THEN Respond(r, "delete", id, EmptyMap, None, 404,
                            "Student not found", <<>>, 0, 1)
               ELSE Respond(r, "delete", id, EmptyMap, None, 200, "",
                            <<EmptyMap>>, 0, 1)

\* The response is delivered and the handler's frame is dropped.
deliver_response(r) ==
    /\ req[r].pc = "done"
    /\ req' = [req EXCEPT ![r] = IdleFrame]
    /\ UNCHANGED <<students, nextId>>

(***************************************************************************)
(* Request inputs                                                          *)
(***************************************************************************)
StudentData(name, age, city, country) ==
    [name |-> name, age |-> age,
     address |-> Dict([city |-> city, country |-> country])]

\* A well-formed create body, and the bodies that differ from it by one defect.
AnnData == StudentData(Str("Ann"), Num(20), Str("Pune"), Str("IN"))

Without(m, key) == [k \in DOMAIN m \ {key} |-> m[k]]
With(m, key, val) == [k \in DOMAIN m \cup {key} |-> IF k = key THEN val ELSE m[k]]

DefectiveCreates ==
    { Without(AnnData, key) : key \in {"name", "age", "address"} }
    \cup { With(AnnData, "name", x) : x \in {Str(""), Num(7)} }
    \cup { With(AnnData, "age", x) : x \in {Num(-1), Str("x")} }
    \cup { With(AnnData, "address", x) :
             x \in { None,
                     Dict(EmptyMap),
                     Dict([city |-> Str("Pune")]),
                     Dict([country |-> Str("IN")]),
                     Dict([city |-> Str(""), country |-> Str("IN")]),
                     Dict([city |-> Str("Pune"), country |-> Str("")]) } }

CreateInputs ==
    { AnnData,
      With(AnnData, "age", Num(0)),
      With(AnnData, "address",
           Dict([city |-> Str("Pune"), country |-> Str("IN"),
                 zip |-> Str("411001")])) }
    \cup DefectiveCreates

\* The store's bound: a create that inserts needs an ObjectId left.
CreateWithin(maxIds, student_data) ==
    nextId < maxIds \/ student_data \in DefectiveCreates

\* Values a partial update may carry: update_student checks keys, not values.
UpdateAddressValue == [city |-> {Str("Mumbai")}, country |-> {Str("US")}]
UpdateAddresses == { Dict(a) : a \in Maps({"city", "country"}, UpdateAddressValue) }
UpdateValue ==
    [name |-> {Str("Ann"), Str("")}, age |-> {Num(25)}, address |-> UpdateAddresses]

AllowedUpdates == Maps({"name", "age", "address"}, UpdateValue)

\* Bodies with a key outside the allowed ones, or an address that is no mapping.
RejectedUpdates ==
    { [nickname |-> Str("x")],
      [name |-> Str("Ann"), nickname |-> Str("x")],
      [address |-> Dict([zip |-> Str("411001")])],
      [address |-> Dict([city |-> Str("Mumbai"), zip |-> Str("411001")])],
      [age |-> Num(25), address |-> Dict([zip |-> Str("411001")])],
      [nickname |-> Str("x"), address |-> None],
      [address |-> None] }

UpdateInputs == AllowedUpdates \cup RejectedUpdates

Handlers == DOMAIN req

Deliver == \E r \in Handlers : deliver_response(r)
UpdateWrite == \E r \in Handlers : update_student_write(r)

(***************************************************************************)
(* Spec: one handler, requests served one after the other                  *)
(***************************************************************************)
Init ==
    /\ students = EmptyMap
    /\ nextId = 0
    /\ req = [r \in {1} |-> IdleFrame]

Create ==
    \E r \in Handlers, d \in CreateInputs :
        CreateWithin(MaxIds, d) /\ create_student(r, d)
Fetch == \E r \in Handlers, id \in IdStrings(MaxIds) : fetch_student(r, id)
UpdateLoad ==
    \E r \in Handlers, id \in IdStrings(MaxIds), u \in UpdateInputs :
        update_student_load(r, id, u)
Delete == \E r \in Handlers, id \in IdStrings(MaxIds) : delete_student(r, id)

Next == Create \/ Fetch \/ UpdateLoad \/ UpdateWrite \/ Delete \/ Deliver

Spec == Init /\ [][Next]_vars

(***************************************************************************)
(* SpecList: one handler; students that differ in age and country, listed  *)
(* with every combination of the two filters                               *)
(***************************************************************************)
ListCreates ==
    { StudentData(Str("Ann"), a, Str("Pune"), k) :
        a \in {Num(20), Num(25)}, k \in {Str("IN"), Str("US")} }

ListUpdates ==
    { [age |-> Num(25)], [age |-> Num(-1)],
      [address |-> Dict([country |-> Str("US")])] }

ListCountries == {None, Str(""), Str("IN"), Str("US")}
ListAges == {None, Num(0), Num(22), Num(25)}

CreateL ==
    \E r \in Handlers, d \in ListCreates :
        CreateWithin(MaxListIds, d) /\ create_student(r, d)
ListL ==
    \E r \in Handlers, c \in ListCountries, a \in ListAges :
        list_students(r, c, a)
FetchL == \E r \in Handlers, id \in IdStrings(MaxListIds) : fetch_student(r, id)
UpdateLoadL ==
    \E r \in Handlers, id \in IdStrings(MaxListIds), u \in ListUpdates :
        update_student_load(r, id, u)
DeleteL == \E r \in Handlers, id \in IdStrings(MaxListIds) : delete_student(r, id)

NextList ==
    CreateL \/ ListL \/ FetchL \/ UpdateLoadL \/ UpdateWrite \/ DeleteL \/ Deliver

SpecList == Init /\ [][NextList]_vars

(***************************************************************************)
(* SpecRace: two handlers in flight together, partial updates of the       *)
(* address racing with each other and with deletes                         *)
(***************************************************************************)
RaceHandlers == {1, 2}

RaceUpdates ==
    { EmptyMap,
      [address |-> Dict([city |-> Str("Mumbai")])],
      [address |-> Dict([country |-> Str("US")])] }

InitRace ==
    /\ students = EmptyMap
    /\ nextId = 0
    /\ req = [r \in RaceHandlers |-> IdleFrame]

CreateR ==
    \E r \in Handlers : CreateWithin(MaxRaceIds, AnnData) /\ create_student(r, AnnData)
UpdateLoadR ==
    \E r \in Handlers, id \in IdStrings(MaxRaceIds), u \in RaceUpdates :
        update_student_load(r, id, u)
DeleteR == \E r \in Handlers, id \in IdStrings(MaxRaceIds) : delete_student(r, id)

NextRace == CreateR \/ UpdateLoadR \/ UpdateWrite \/ DeleteR \/ Deliver

SpecRace == InitRace /\ [][NextRace]_vars

(***************************************************************************)
(* Properties                                                              *)
(***************************************************************************)
\* Steps of handler r, recognised by what they do to its frame.
Starts(r, op) == req[r].pc = "idle" /\ req'[r].pc # "idle" /\ req'[r].op = op
Writes(r) == req[r].pc = "loaded" /\ req'[r].pc = "done"

\* The update body u supplies top-level field k / address sub-field f.
Supplies(u, k) == k \in DOMAIN u
SuppliesAddr(u, f) ==
    /\ "address" \in DOMAIN u
    /\ u["address"].t = "dict"
    /\ f \in DOMAIN u["address"].v

\* The update body u uses only allowed keys, and its address is a mapping.
OnlyAllowedKeys(u) ==
    /\ \A k \in DOMAIN u : k \in {"name", "age", "address"}
    /\ "address" \in DOMAIN u =>
          /\ u["address"].t = "dict"
          /\ \A f \in DOMAIN u["address"].v : f \in {"city", "country"}

\* The update body u has a key that is not allowed.
HasUnknownKey(u) ==
    \/ \E k \in DOMAIN u : k \notin {"name", "age", "address"}
    \/ /\ "address" \in DOMAIN u
       /\ u["address"].t = "dict"
       /\ \E f \in DOMAIN u["address"].v : f \notin {"city", "country"}

\* The snapshot a suspended update holds is what is stored now.
SnapshotCurrent(r) ==
    /\ req[r].id.n \in DOMAIN students
    /\ \A k \in DOMAIN students[req[r].id.n] :
          req[r].student[k] = students[req[r].id.n][k]

\* C1: an update whose load and write are not separated by another request
\* on the record leaves the record as it was, except that every supplied
\* top-level field and every supplied address sub-field holds the supplied
\* value.
C1_PartialUpdateMerges ==
    [][\A r \in Handlers :
        (Writes(r) /\ SnapshotCurrent(r)) =>
            LET oid    == req[r].id.n
                u      == req[r].input
                before == students[oid]
            IN  /\ oid \in DOMAIN students'
                /\ DOMAIN students'[oid] = DOMAIN before
                /\ \A k \in {"name", "age"} :
                      students'[oid][k] =
                          IF Supplies(u, k) THEN u[k] ELSE before[k]
                /\ DOMAIN students'[oid]["address"] = {"city", "country"}
                /\ \A f \in {"city", "country"} :
                      students'[oid]["address"][f] =
                          IF SuppliesAddr(u, f) THEN u["address"].v[f]
                          ELSE before["address"][f]]_vars

\* C1 witness: Update(id, {address: {city: "Mumbai"}}) on a record stored with
\* {city: "Pune", country: "IN"} has succeeded and the country is still "IN".
C1_Witness ==
    \E r \in Handlers :
        /\ req[r].pc = "done" /\ req[r].op = "update" /\ req[r].status = 204
        /\ req[r].input = [address |-> Dict([city |-> Str("Mumbai")])]
        /\ req[r].student["address"] = [city |-> Str("Pune"), country |-> Str("IN")]
        /\ req[r].id.n \in DOMAIN students
        /\ students[req[r].id.n]["address"] =
               [city |-> Str("Mumbai"), country |-> Str("IN")]

\* C2: an update whose body has a key outside {name, age, address}, or an
\* address key outside {city, country}, ends in 400 without a storage read or
\* write, for every id (stored, absent or malformed), and changes no record.
C2_UnknownFieldRejected ==
    [][\A r \in Handlers :
        (Starts(r, "update") /\ HasUnknownKey(req'[r].input)) =>
            /\ req'[r].pc = "done"
            /\ req'[r].status = 400
            /\ req'[r].reads = 0
            /\ req'[r].writes = 0
            /\ students' = students]_vars

\* C2 witness: an update of a stored record with an unknown address key was
\* answered 400.
C2_Witness ==
    \E r \in Handlers :
        /\ req[r].pc = "done" /\ req[r].op = "update" /\ req[r].status = 400
        /\ SuppliesAddr(req[r].input, "zip")
        /\ ~Supplies(req[r].input, "nickname")
        /\ req[r].id.n \in DOMAIN students

\* C3: Fetch, Update (allowed keys) and Delete on a well-formed id that is not
\* stored answer 404 "Student not found" and leave the collection unchanged.
C3_NotFound ==
    [][\A r \in Handlers :
        ( /\ \/ Starts(r, "fetch")
             \/ Starts(r, "delete")
             \/ Starts(r, "update") /\ OnlyAllowedKeys(req'[r].input)
          /\ req'[r].id.wf
          /\ req'[r].id.n \notin DOMAIN students ) =>
            /\ req'[r].pc = "done"
            /\ req'[r].status = 404
            /\ req'[r].detail = "Student not found"
            /\ students' = students]_vars

\* C3 witness: a Delete of an id that was stored and has been deleted was
\* answered 404.
C3_Witness ==
    \E r \in Handlers :
        /\ req[r].pc = "done" /\ req[r].op = "delete" /\ req[r].status = 404
        /\ req[r].id.wf
        /\ req[r].id.n <= nextId
        /\ req[r].id.n \notin DOMAIN students

\* C4: a Create that answers with id X has stored, under an id no stored
\* record had, a record with exactly the fields of its body; a Fetch of a
\* stored id answers with the stored fields and that id; and a stored record
\* changes only by an Update's write or a Delete on its id.
C4_CreateThenFetch ==
    [][/\ \A r \in Handlers :
            (Starts(r, "create") /\ req'[r].status = 201) =>
                LET m == req'[r].input
                IN  \E X \in DOMAIN students' :
                        /\ X \notin DOMAIN students
                        /\ DOMAIN students' = DOMAIN students \cup {X}
                        /\ \A i \in DOMAIN students : students'[i] = students[i]
                        /\ req'[r].payload = <<[id |-> IdStr(X)]>>
                        /\ students'[X] =
                               [name |-> m["name"], age |-> m["age"],
                                address |->
                                    [city |-> m["address"].v["city"],
                                     country |-> m["address"].v["country"]]]
       /\ \A r \in Handlers :
            ( /\ Starts(r, "fetch")
              /\ req'[r].id.wf
              /\ req'[r].id.n \in DOMAIN students ) =>
                LET X == req'[r].id.n
                IN  /\ req'[r].pc = "done"
                    /\ req'[r].status = 200
                    /\ students' = students
                    /\ Len(req'[r].payload) = 1
                    /\ DOMAIN req'[r].payload[1] = {"id", "name", "age", "address"}
                    /\ req'[r].payload[1]["id"] = req'[r].id
                    /\ \A k \in {"name", "age", "address"} :
                          req'[r].payload[1][k] = students[X][k]
       /\ \A X \in DOMAIN students :
            \/ X \in DOMAIN students' /\ students'[X] = students[X]
            \/ \E r \in Handlers : Writes(r) /\ req[r].id.n = X
            \/ \E r \in Handlers :
                   Starts(r, "delete") /\ req'[r].id.wf /\ req'[r].id.n = X
      ]_vars

\* C4 witness: with another record stored, the second created record has been
\* fetched by its id and the answer carries that id and the created fields.
C4_Witness ==
    \E r \in Handlers :
        /\ req[r].pc = "done" /\ req[r].op = "fetch" /\ req[r].status = 200
        /\ req[r].id = IdStr(2)
        /\ 1 \in DOMAIN students
        /\ req[r].payload =
               <<[id |-> IdStr(2), name |-> Str("Ann"), age |-> Num(25),
                  address |-> [city |-> Str("Pune"), country |-> Str("US")]]>>

\* The stored ids a List with parameters (country, age) is to return, when the
\* country filter is applied for every supplied country string ...
ClaimedMatch(country, age) ==
    { i \in DOMAIN students :
        /\ country # None => students[i]["address"]["country"] = country
        /\ age # None => /\ students[i]["age"].t = "int"
                         /\ students[i]["age"].v >= age.v }

\* ... and when it is applied for every supplied non-empty country string.
NonEmptyMatch(country, age) ==
    { i \in DOMAIN students :
        /\ (country # None /\ country.v # "")
              => students[i]["address"]["country"] = country
        /\ age # None => /\ students[i]["age"].t = "int"
                         /\ students[i]["age"].v >= age.v }

\* payload is, as a multiset, the {name, age} projections of the records M
\* (of the first ListCap of them, when there are more).
IsProjectionOf(payload, M) ==
    LET proj(i) == [name |-> students[i]["name"], age |-> students[i]["age"]]
    IN  IF Cardinality(M) > ListCap THEN Len(payload) = ListCap
        ELSE /\ Len(payload) = Cardinality(M)
             /\ \A i \in M :
                   Cardinality({ n \in 1..Len(payload) : payload[n] = proj(i) })
                     = Cardinality({ j \in M : proj(j) = proj(i) })

C6_StoredStudentsValid ==
    \A i \in DOMAIN students :
        /\ students[i]["name"].t = "str" /\ students[i]["name"].v # ""
        /\ students[i]["age"].t = "int" /\ students[i]["age"].v >= 0
        /\ DOMAIN students[i]["address"] = {"city", "country"}
        /\ \A f \in {"city", "country"} :
              /\ students[i]["address"][f].t = "str"
              /\ students[i]["address"][f].v # ""

\* C7: Fetch, Update and Delete with a malformed id are answered with a
\* 400-class client-input error other than not-found.
C7_MalformedIdRejected ==
    \A r \in Handlers :
        ( /\ req[r].pc = "done"
          /\ req[r].op \in {"fetch", "update", "delete"}
          /\ req[r].id = MalformedId ) =>
            /\ req[r].status \in 400..499
            /\ req[r].status # 404

\* The update body u supplies the address sub-field f and nothing else.
OnlyAddr(u, f) ==
    /\ DOMAIN u = {"address"}
    /\ u["address"].t = "dict"
    /\ DOMAIN u["address"].v = {f}

\* C8: two updates p and q of one record, p supplying only one address
\* sub-field and q only the other, have loaded the same document; p has
\* written and succeeded and its address is the stored one.  Then q's write
\* stores the loaded address with q's sub-field alone changed, so p's
\* sub-field is back at its loaded value; and q succeeds when p had changed
\* something.
C8_LostUpdate ==
    [][\A p, q \in Handlers : \A f, g \in {"city", "country"} :
        ( /\ p # q /\ f # g
          /\ Writes(q)
          /\ req[p].pc = "done" /\ req[p].op = "update" /\ req[p].status = 204
          /\ req[p].id = req[q].id
          /\ req[p].student = req[q].student
          /\ OnlyAddr(req[p].input, f)
          /\ OnlyAddr(req[q].input, g)
          /\ req[q].id.n \in DOMAIN students
          /\ students[req[q].id.n]["address"] =
                [req[p].student["address"] EXCEPT
                    ![f] = req[p].input["address"].v[f]] ) =>
            LET oid == req[q].id.n
                d   == req[q].student["address"]
            IN  /\ oid \in DOMAIN students'
                /\ students'[oid]["address"] =
                       [d EXCEPT ![g] = req[q].input["address"].v[g]]
                /\ req[p].input["address"].v[f] # d[f] =>
                       /\ req'[q].status = 204
                       /\ students'[oid]["address"][f] #
                              req[p].input["address"].v[f]
      ]_vars

\* C8 witness: on {city: Pune, country: IN}, an update to city Mumbai and an
\* update to country US both loaded the record before either wrote, both
\* answered 204, and the stored address is {city: Pune, country: US}.
C8_Witness ==
    \E p, q \in Handlers :
        /\ p # q
        /\ req[p].pc = "done" /\ req[p].op = "update" /\ req[p].status = 204
        /\ req[q].pc = "done" /\ req[q].op = "update" /\ req[q].status = 204
        /\ req[p].id = req[q].id
        /\ req[p].input = [address |-> Dict([city |-> Str("Mumbai")])]
        /\ req[q].input = [address |-> Dict([country |-> Str("US")])]
        /\ req[p].student = req[q].student
        /\ req[p].student["address"] = [city |-> Str("Pune"), country |-> Str("IN")]
        /\ req[q].id.n \in DOMAIN students
        /\ students[req[q].id.n]["address"] =
               [city |-> Str("Pune"), country |-> Str("US")]

\* The document an update's first half loaded, with the supplied values laid
\* over it.
MergedDocument(r) ==
    LET u == req[r].input
        d == req[r].student
    IN  [k \in DOMAIN d \ {"_id"} |->
            IF k # "address"
            THEN IF Supplies(u, k) THEN u[k] ELSE d[k]
            ELSE [f \in DOMAIN d["address"] |->
                    IF SuppliesAddr(u, f) THEN u["address"].v[f]
                    ELSE d["address"][f]]]

\* C9: an update's write answers 204 exactly when it changed the stored
\* record, and 404 "Student not found" otherwise, also when the record is
\* stored and the merged document equals it (in particular for an empty
\* body); a 404 leaves the collection unchanged.
C9_SuccessIffModified ==
    [][\A r \in Handlers :
        Writes(r) =>
            LET oid == req[r].id.n
            IN  /\ req'[r].status \in {204, 404}
                /\ req'[r].status = 204 <=>
                      /\ oid \in DOMAIN students
                      /\ oid \in DOMAIN students'
                      /\ students'[oid] # students[oid]
                /\ req'[r].status = 404 =>
                      /\ req'[r].detail = "Student not found"
                      /\ students' = students
                /\ (oid \in DOMAIN students
                      /\ MergedDocument(r) = students[oid]) =>
                      req'[r].status = 404
                /\ (SnapshotCurrent(r) /\ req[r].input = EmptyMap) =>
                      req'[r].status = 404
      ]_vars

\* C9 witness: two updates to city Mumbai loaded the same record with city
\* Pune; one answered 204, the other, writing the same values after it,
\* answered 404 although the record is stored.
C9_Witness ==
    \E p, q \in Handlers :
        /\ p # q
        /\ req[p].pc = "done" /\ req[p].op = "update" /\ req[p].status = 204
        /\ req[q].pc = "done" /\ req[q].op = "update" /\ req[q].status = 404
        /\ req[q].writes = 1
        /\ req[p].id = req[q].id
        /\ req[p].input = [address |-> Dict([city |-> Str("Mumbai")])]
        /\ req[q].input = req[p].input
        /\ req[p].student = req[q].student
        /\ req[p].student["address"]["city"] = Str("Pune")
        /\ req[q].id.n \in DOMAIN students
        /\ students[req[q].id.n]["address"]["city"] = Str("Mumbai")

\* C10: the set of stored ids changes only by a create adding one id that
\* the store never generated before, or by a delete removing the id it was
\* sent; an update's write never changes it, and answers 404 without storing
\* anything when its record is gone.
C10_IdsOnlyByCreateAndDelete ==
    [][/\ DOMAIN students \subseteq 1..nextId
       /\ nextId' >= nextId
       /\ \/ DOMAIN students' = DOMAIN students
          \/ \E r \in Handlers, X \in DOMAIN students' :
                /\ Starts(r, "create")
                /\ X \notin 1..nextId
                /\ DOMAIN students' = DOMAIN students \cup {X}
          \/ \E r \in Handlers :
                /\ Starts(r, "delete")
                /\ req'[r].id.n \in DOMAIN students
                /\ DOMAIN students' = DOMAIN students \ {req'[r].id.n}
       /\ \A r \in Handlers :
            Writes(r) =>
                /\ DOMAIN students' = DOMAIN students
                /\ req[r].id.n \notin DOMAIN students =>
                      /\ req'[r].status = 404
                      /\ students' = students
      ]_vars

\* C10 witness: an update loaded a record, a delete of the same id answered
\* 200, and the update's write then answered 404 with the id not stored.
C10_Witness ==
    \E p, q \in Handlers :
        /\ p # q
        /\ req[p].pc = "done" /\ req[p].op = "update" /\ req[p].status = 404
        /\ req[p].writes = 1
        /\ req[p].student # None
        /\ req[q].pc = "done" /\ req[q].op = "delete" /\ req[q].status = 200
        /\ req[q].id = req[p].id
        /\ req[p].id.n \notin DOMAIN students

====
